---- MODULE Spec2Model ----
(***************************************************************************)
(* Agent-based housing market of real_estate_toolkit: House,               *)
(* HousingMarket, Consumer and the Simulation driver.                      *)
(*                                                                         *)
(* Money: prices and incomes are whole currency units; savings are kept    *)
(* in hundredths (compute_savings rounds to 2 decimals), so a price p is   *)
(* worth 100 * p hundredths.  Python floats are modelled as the exact      *)
(* rationals they approximate.                                             *)
(* Objects: a House is an address into heap; None is address 0.            *)
(***************************************************************************)
EXTENDS Integers, Sequences, FiniteSets, TLC

\* ---- bounds of the model ------------------------------------------------
MaxHouses == 2
MaxConsumers == 2
MaxYears == 1
MaxBuilds == 2
MaxCreates == 1
MaxAccruals == 1
MaxPasses == 2
MaxSavingsYears == 5
MaxScorings == 2

\* ---- program constants --------------------------------------------------
down_payment_rate == 20
saving_rate == 30
interest_rate == 5

None == 0

FANCY == "FANCY"
OPTIMIZER == "OPTIMIZER"
AVERAGE == "AVERAGE"
Segment == {FANCY, OPTIMIZER, AVERAGE}

\* QualityScore, by value
EXCELLENT == 5
GOOD == 4
AVERAGE_QUALITY == 3
FAIR == 2
POOR == 1
QualityScore == {EXCELLENT, GOOD, AVERAGE_QUALITY, FAIR, POOR}

INCOME_ORDER_DESCENDANT == "INCOME_ORDER_DESCENDANT"
INCOME_ORDER_ASCENDANT == "INCOME_ORDER_ASCENDANT"
RANDOM == "RANDOM"
CleaningMarketMechanism == {INCOME_ORDER_DESCENDANT, INCOME_ORDER_ASCENDANT, RANDOM}

\* ---- input domains ------------------------------------------------------
\* rows of housing_market_data (only the five fields the code reads)
HouseRecords ==
    [Id : {1, 2}, SalePrice : {50, 100}, GrLivArea : {20},
     BedroomAbvGr : {1}, YearBuilt : {2000}]

\* values random.gauss can return, on the model's grid
IncomeGrid == {40, 80}

AnnualIncomeStatistics ==
    { [minimum |-> 40, average |-> 60, standard_deviation |-> 20, maximum |-> 80],
      [minimum |-> 80, average |-> 60, standard_deviation |-> 20, maximum |-> 40] }

ChildrenRange == { [minimum |-> 0, maximum |-> 0] }

SeqsUpTo(S, n) == UNION { [1..k -> S] : k \in 0..n }

Range(s) == { s[k] : k \in 1..Len(s) }

VARIABLES
    housing_market_data,        \* Simulation.housing_market_data
    consumers_number,           \* Simulation.consumers_number
    years,                      \* Simulation.years
    annual_income,              \* Simulation.annual_income
    children_range,             \* Simulation.children_range
    cleaning_market_mechanism,  \* Simulation.cleaning_market_mechanism
    attrs,                      \* which of housing_market / consumers are assigned
    heap,                       \* the House objects ever constructed
    housing_market,             \* HousingMarket.houses: addresses, in insertion order
    consumers,                  \* Simulation.consumers: Consumer records
    pc,                         \* "idle", or the method whose loop is running
    i,                          \* clean_the_market's position in self.consumers
    income,                     \* create_consumers' last sample
    ret,                        \* the most recent call and how it ended
    attempted,                  \* history: consumer ids that attempted, this pass
    builds,                     \* history: calls of create_housing_market
    creates,                    \* history: calls of create_consumers
    passes,                     \* history: calls of clean_the_market
    accruals,                   \* history: compute_savings calls on this population
    scored                      \* history: the houses get_quality_score was called on

config == <<housing_market_data, consumers_number, years, annual_income,
            children_range, cleaning_market_mechanism>>

vars == <<housing_market_data, consumers_number, years, annual_income,
          children_range, cleaning_market_mechanism, attrs, heap,
          housing_market, consumers, pc, i, income, ret, attempted, builds, creates, passes, accruals, scored>>

Outcome(call, status, num, den) ==
    [call |-> call, status |-> status, num |-> num, den |-> den]

Init ==
    /\ housing_market_data \in SeqsUpTo(HouseRecords, MaxHouses)
    /\ consumers_number \in 0..MaxConsumers
    /\ years \in 1..MaxYears
    /\ annual_income \in AnnualIncomeStatistics
    /\ children_range \in ChildrenRange
    /\ cleaning_market_mechanism \in CleaningMarketMechanism
    /\ attrs = {}
    /\ heap = <<>>
    /\ housing_market = <<>>
    /\ consumers = <<>>
    /\ pc = "idle"
    /\ i = 0
    /\ income = 0
    /\ ret = Outcome("__init__", "returned", 0, 0)
    /\ attempted = <<>>
    /\ builds = 0
    /\ creates = 0
    /\ passes = 0
    /\ accruals = 0
    /\ scored = <<>>

\* ---- House ---------------------------------------------------------------
House(original_data) ==
    [id |-> original_data.Id,
     price |-> original_data.SalePrice,
     area |-> original_data.GrLivArea,
     bedrooms |-> original_data.BedroomAbvGr,
     year_built |-> original_data.YearBuilt,
     quality_score |-> None,
     available |-> TRUE,
     segment |-> "AVERAGE"]

current_year == 2024

age_score(year_built) ==
    LET age == current_year - year_built
    IN IF age <= 5 THEN 5
       ELSE IF age <= 10 THEN 4
       ELSE IF age <= 20 THEN 3
       ELSE IF age <= 50 THEN 2
       ELSE 1

size_score(area) ==
    IF area >= 3000 THEN 5
    ELSE IF area >= 2000 THEN 4
    ELSE IF area >= 1500 THEN 3
    ELSE IF area >= 1000 THEN 2
    ELSE 1

bedrooms_score(bedrooms) ==
    IF bedrooms >= 5 THEN 5
    ELSE IF bedrooms >= 4 THEN 4
    ELSE IF bedrooms >= 3 THEN 3
    ELSE IF bedrooms >= 2 THEN 2
    ELSE 1

\* the score computed from the attributes; average_score is total / 3, so
\* average_score >= 4.5 is 2 * total >= 27, and so on
average_score_to_quality(total) ==
    IF 2 * total >= 27 THEN EXCELLENT
    ELSE IF 2 * total >= 21 THEN GOOD
    ELSE IF 2 * total >= 15 THEN AVERAGE_QUALITY
    ELSE IF 2 * total >= 9 THEN FAIR
    ELSE POOR

\* get_quality_score without the early return: the score is computed again on
\* every call
get_quality_score_recomputing(h, a) ==
    [h EXCEPT ![a].quality_score =
        average_score_to_quality(age_score(h[a].year_built) + size_score(h[a].area)
                                   + bedrooms_score(h[a].bedrooms))]

\* House.get_quality_score on the house at address a
get_quality_score(h, a) ==
    IF h[a].quality_score # None THEN h
    ELSE [h EXCEPT ![a].quality_score =
            average_score_to_quality(age_score(h[a].year_built) + size_score(h[a].area)
                                       + bedrooms_score(h[a].bedrooms))]

\* sell_house that forgets to flip the flag
sell_house_keeps_available(h, a) == h

sell_house(h, a) == [h EXCEPT ![a].available = FALSE]

\* ---- HousingMarket ------------------------------------------------------
RECURSIVE SumPrices(_, _)
SumPrices(houses, h) ==
    IF houses = <<>> THEN 0
    ELSE h[Head(houses)].price + SumPrices(Tail(houses), h)

\* statistics.mean over every house of the market, as the fraction num / den;
\* 0.0 for an empty market
calculate_average_price(houses, h) ==
    IF houses = <<>> THEN [num |-> 0, den |-> 1]
    ELSE [num |-> SumPrices(houses, h), den |-> Len(houses)]

\* first house of the market with that id, or None
get_house_by_id(houses, h, house_id) ==
    LET hits == { k \in 1..Len(houses) : h[houses[k]].id = house_id }
    IN IF hits = {} THEN None
       ELSE houses[CHOOSE k \in hits : \A m \in hits : k <= m]

\* ---- Consumer -------------------------------------------------------------
Consumer(id, inc, children, seg) ==
    [id |-> id, annual_income |-> inc, children_number |-> children,
     segment |-> seg, house |-> None, savings |-> 0]

\* what round(x, 2) can return for the non-negative x = whole + frac / den
\* hundredths: the nearest hundredth; when x lies exactly between two, the
\* float that stands for x lies on either side, so either neighbour
Round2(whole, frac, den) ==
    IF 2 * frac < den THEN {whole}
    ELSE IF 2 * frac > den THEN {whole + 1}
    ELSE {whole, whole + 1}

RECURSIVE Gcd(_, _)
Gcd(a, b) == IF b = 0 THEN a ELSE Gcd(b, a % b)

\* 1 + interest_rate as a fraction in lowest terms
growth ==
    LET g == Gcd(100 + interest_rate, 100)
    IN [num |-> (100 + interest_rate) \div g, den |-> 100 \div g]

\* a loop that rounds to hundredths after every year
RECURSIVE AccumulateRoundingYearly(_, _, _, _, _)
AccumulateRoundingYearly(whole, frac, den, contribution, k) ==
    IF k = 0 THEN [whole |-> whole, frac |-> frac, den |-> den]
    ELSE LET t == (whole + contribution) * growth.num
             q == t \div growth.den
             r == t % growth.den
         IN AccumulateRoundingYearly(IF 2 * r >= growth.den THEN q + 1 ELSE q,
                                     0, 1, contribution, k - 1)

\* the loop of compute_savings: k more years from savings = whole + frac / den
\* hundredths, kept exact (0 <= frac < den)
RECURSIVE Accumulate(_, _, _, _, _)
Accumulate(whole, frac, den, contribution, k) ==
    IF k = 0 THEN [whole |-> whole, frac |-> frac, den |-> den]
    ELSE LET t == (whole + contribution) * growth.num
             q == t \div growth.den
             r == t % growth.den
             n == r * den + growth.num * frac
             d == den * growth.den
         IN Accumulate(q + n \div d, n % d, d, contribution, k - 1)

\* Consumer.compute_savings: the consumers the call can leave
compute_savings(c, yrs) ==
    LET acc == Accumulate(c.savings, 0, 1, c.annual_income * saving_rate, yrs)
    IN { [c EXCEPT !.savings = s] : s \in Round2(acc.whole, acc.frac, acc.den) }

\* the segment's candidate test of buy_a_house, for the house at address a
\* an OPTIMIZER filter that divides for every available house
divides_unguarded(h, a) == h[a].available

\* the OPTIMIZER filter gets to h.price / h.area: `and` has let it through
divides(h, a) == h[a].available /\ h[a].area > 0

\* the OPTIMIZER filter divides by zero for some house of the market
filter_raises(c, houses, h) ==
    /\ c.segment = OPTIMIZER
    /\ \E k \in 1..Len(houses) : divides(h, houses[k]) /\ h[houses[k]].area = 0

\* the AVERAGE filter with <= for <
SegmentFilterUpToMean(c, a, houses, h) ==
    IF c.segment = OPTIMIZER
    THEN /\ divides(h, a)
         /\ h[a].price * 12 < c.annual_income * h[a].area
    ELSE IF c.segment = AVERAGE
    THEN LET avg_price == calculate_average_price(houses, h)
         IN /\ h[a].available
            /\ h[a].price * avg_price.den <= avg_price.num
    ELSE h[a].available

SegmentFilter(c, a, houses, h) ==
    IF c.segment = OPTIMIZER
    THEN /\ divides(h, a)
         /\ h[a].price * 12 < c.annual_income * h[a].area
    ELSE IF c.segment = AVERAGE
    THEN LET avg_price == calculate_average_price(houses, h)
         IN /\ h[a].available
            /\ h[a].price * avg_price.den < avg_price.num
    ELSE h[a].available

\* a bedroom requirement that forgets the parents' room
candidate_houses_one_room_short(c, houses, h) ==
    LET by_segment == SelectSeq(houses, LAMBDA a : SegmentFilter(c, a, houses, h))
        min_bedrooms == c.children_number
    IN SelectSeq(by_segment, LAMBDA a : h[a].bedrooms >= min_bedrooms)

candidate_houses(c, houses, h) ==
    LET by_segment == SelectSeq(houses, LAMBDA a : SegmentFilter(c, a, houses, h))
        min_bedrooms == c.children_number + 1
    IN SelectSeq(by_segment, LAMBDA a : h[a].bedrooms >= min_bedrooms)

\* down payment of a house, in hundredths
down_payment(price) == price * down_payment_rate

\* best-fit instead of first-fit: the cheapest candidate the savings cover
CheapestSuitable(candidates, h, savings) ==
    LET ok == { k \in 1..Len(candidates) :
                  savings >= down_payment(h[candidates[k]].price) }
    IN IF ok = {} THEN None
       ELSE candidates[CHOOSE k \in ok : \A m \in ok :
                \/ h[candidates[k]].price < h[candidates[m]].price
                \/ h[candidates[k]].price = h[candidates[m]].price /\ k <= m]

\* a purchase loop without the savings test: the first candidate is taken
FirstCandidate(candidates, h, savings) ==
    IF candidates = <<>> THEN None ELSE Head(candidates)

\* the purchase loop: first candidate whose down payment the savings cover
RECURSIVE FirstSuitable(_, _, _)
FirstSuitable(candidates, h, savings) ==
    IF candidates = <<>> THEN None
    ELSE IF savings >= down_payment(h[Head(candidates)].price)
         THEN Head(candidates)
         ELSE FirstSuitable(Tail(candidates), h, savings)

\* a purchase loop that goes on after a purchase: every candidate the remaining
\* savings cover is taken, the reference ends on the last one
RECURSIVE TakeEvery(_, _, _)
TakeEvery(candidates, c, h) ==
    IF candidates = <<>> THEN [consumer |-> c, heap |-> h]
    ELSE LET house == Head(candidates)
         IN IF c.savings >= down_payment(h[house].price)
            THEN TakeEvery(Tail(candidates),
                           [c EXCEPT !.house = house,
                                     !.savings = @ - down_payment(h[house].price)],
                           sell_house(h, house))
            ELSE TakeEvery(Tail(candidates), c, h)

buy_a_house_without_return(c, houses, h) ==
    TakeEvery(candidate_houses(c, houses, h), [c EXCEPT !.house = None], h)

\* buy_a_house without the final assignment: a failed attempt leaves the
\* reference as it was
buy_a_house_keeping_house(c, houses, h) ==
    LET house == FirstSuitable(candidate_houses(c, houses, h), h, c.savings)
    IN IF house # None
       THEN [consumer |-> [c EXCEPT !.house = house,
                                    !.savings = @ - down_payment(h[house].price)],
             heap |-> sell_house(h, house)]
       ELSE [consumer |-> c, heap |-> h]

\* Consumer.buy_a_house: the consumer and the heap after the call
buy_a_house(c, houses, h) ==
    LET house == FirstSuitable(candidate_houses(c, houses, h), h, c.savings)
    IN IF house # None
       THEN [consumer |-> [c EXCEPT !.house = house,
                                    !.savings = @ - down_payment(h[house].price)],
             heap |-> sell_house(h, house)]
       ELSE [consumer |-> [c EXCEPT !.house = None], heap |-> h]

\* ---- Simulation.create_housing_market -------------------------------------
create_housing_market ==
    /\ pc = "idle"
    /\ builds < MaxBuilds
    /\ builds' = builds + 1
    /\ LET n == Len(housing_market_data)
           base == Len(heap)
       IN /\ heap' = heap \o [k \in 1..n |-> House(housing_market_data[k])]
          /\ housing_market' = [k \in 1..n |-> base + k]
    /\ attrs' = attrs \cup {"housing_market"}
    /\ ret' = Outcome("create_housing_market", "returned", 0, 0)
    /\ UNCHANGED <<config, scored, consumers, pc, i, income, attempted, creates, passes, accruals>>

\* ---- Simulation.create_consumers -------------------------------------------
\* what random.gauss(average, standard_deviation) can return
gauss(average, standard_deviation) ==
    IF standard_deviation = 0 THEN {average} ELSE IncomeGrid

\* the samples that leave the rejection loop
AcceptedIncomes ==
    { x \in gauss(annual_income.average, annual_income.standard_deviation) :
        annual_income.minimum <= x /\ x <= annual_income.maximum }

randint(lo, hi) == lo..hi

create_consumers ==
    /\ pc = "idle"
    /\ creates < MaxCreates
    /\ creates' = creates + 1
    /\ IF consumers_number >= 1 /\ AcceptedIncomes = {}
       THEN \* the while True loop of the first consumer never breaks
            /\ pc' = "create_consumers"
            /\ income' \in gauss(annual_income.average, annual_income.standard_deviation)
            /\ ret' = Outcome("create_consumers", "running", 0, 0)
            /\ UNCHANGED <<consumers, attrs, accruals>>
       ELSE /\ \E incs \in [1..consumers_number -> AcceptedIncomes],
                  kids \in [1..consumers_number ->
                              randint(children_range.minimum, children_range.maximum)],
                  segs \in [1..consumers_number -> Segment] :
                    consumers' = [k \in 1..consumers_number |->
                                    Consumer(k, incs[k], kids[k], segs[k])]
            /\ attrs' = attrs \cup {"consumers"}
            /\ ret' = Outcome("create_consumers", "returned", 0, 0)
            /\ accruals' = 0
            /\ UNCHANGED <<pc, income>>
    /\ UNCHANGED <<config, scored, heap, housing_market, i, attempted, builds, passes>>

\* one more turn of the rejection loop: draw, test, reject
resample_income ==
    /\ pc = "create_consumers"
    /\ \E x \in gauss(annual_income.average, annual_income.standard_deviation) :
         /\ ~(annual_income.minimum <= x /\ x <= annual_income.maximum)
         /\ x # income
         /\ income' = x
    /\ UNCHANGED <<config, scored, attrs, heap, housing_market, consumers, pc, i, ret,
                   attempted, builds, creates, passes, accruals>>

\* ---- Simulation.compute_consumers_savings ----------------------------------
compute_consumers_savings ==
    /\ pc = "idle"
    /\ accruals < MaxAccruals
    /\ IF "consumers" \notin attrs
       THEN /\ ret' = Outcome("compute_consumers_savings", "AttributeError", 0, 0)
            /\ UNCHANGED <<consumers, accruals>>
       ELSE /\ consumers' \in
                 { cs \in [1..Len(consumers) ->
                             UNION { compute_savings(consumers[k], years) :
                                       k \in 1..Len(consumers) }] :
                     \A k \in 1..Len(consumers) :
                        cs[k] \in compute_savings(consumers[k], years) }
            /\ ret' = Outcome("compute_consumers_savings", "returned", 0, 0)
            /\ accruals' = accruals + 1
    /\ UNCHANGED <<config, scored, attrs, heap, housing_market, pc, i, income, attempted,
                   builds, creates, passes>>

\* ---- Simulation.clean_the_market -------------------------------------------
\* a sort that ignores reverse=True
RECURSIVE InsertAscending(_, _, _)
InsertAscending(x, sorted, reverse) ==
    IF sorted = <<>> THEN <<x>>
    ELSE IF x.annual_income < Head(sorted).annual_income THEN <<x>> \o sorted
         ELSE <<Head(sorted)>> \o InsertAscending(x, Tail(sorted), reverse)

\* list.sort is stable, also with reverse=True: x goes behind every element
\* that does not have to come after it
RECURSIVE InsertSorted(_, _, _)
InsertSorted(x, sorted, reverse) ==
    IF sorted = <<>> THEN <<x>>
    ELSE LET y == Head(sorted)
             x_first == IF reverse THEN x.annual_income > y.annual_income
                        ELSE x.annual_income < y.annual_income
         IN IF x_first THEN <<x>> \o sorted
            ELSE <<y>> \o InsertSorted(x, Tail(sorted), reverse)

RECURSIVE SortByIncome(_, _)
SortByIncome(cs, reverse) ==
    IF cs = <<>> THEN <<>>
    ELSE InsertSorted(cs[Len(cs)], SortByIncome(SubSeq(cs, 1, Len(cs) - 1), reverse),
                      reverse)

\* random.shuffle: every rearrangement
Shuffles(cs) ==
    { [k \in 1..Len(cs) |-> cs[p[k]]] : p \in Permutations(1..Len(cs)) }

\* both income mechanisms sorting the same way
OrderedAlike(mechanism, cs) ==
    IF mechanism \in {INCOME_ORDER_DESCENDANT, INCOME_ORDER_ASCENDANT}
    THEN {SortByIncome(cs, TRUE)}
    ELSE Shuffles(cs)

\* the orders the mechanism's branch can leave self.consumers in
Ordered(mechanism, cs) ==
    IF mechanism = INCOME_ORDER_DESCENDANT THEN {SortByIncome(cs, TRUE)}
    ELSE IF mechanism = INCOME_ORDER_ASCENDANT THEN {SortByIncome(cs, FALSE)}
    ELSE Shuffles(cs)

\* one turn of the purchase loop, for the consumer at position k
purchase_turn(cs, k, houses, h) ==
    LET bought == buy_a_house(cs[k], houses, h)
    IN [consumers |-> [cs EXCEPT ![k] = bought.consumer], heap |-> bought.heap]

\* the purchase loop from position k to the end of the list
RECURSIVE purchase_loop(_, _, _, _)
purchase_loop(cs, k, houses, h) ==
    IF k > Len(cs) THEN [consumers |-> cs, heap |-> h]
    ELSE LET turn == purchase_turn(cs, k, houses, h)
         IN purchase_loop(turn.consumers, k + 1, houses, turn.heap)

\* a clearing that starts by putting every house back on sale
clean_the_market_resetting ==
    /\ pc = "idle"
    /\ passes < MaxPasses
    /\ passes' = passes + 1
    /\ IF "consumers" \notin attrs
       THEN /\ ret' = Outcome("clean_the_market", "AttributeError", 0, 0)
            /\ UNCHANGED <<consumers, pc, i, attempted, heap>>
       ELSE /\ consumers' \in Ordered(cleaning_market_mechanism, consumers)
            /\ heap' = [a \in DOMAIN heap |-> [heap[a] EXCEPT !.available = TRUE]]
            /\ pc' = "clean_the_market"
            /\ i' = 1
            /\ attempted' = <<>>
            /\ ret' = Outcome("clean_the_market", "running", 0, 0)
    /\ UNCHANGED <<config, scored, attrs, housing_market, income, builds, creates, accruals>>

\* the call, up to the head of the purchase loop
clean_the_market ==
    /\ pc = "idle"
    /\ passes < MaxPasses
    /\ passes' = passes + 1
    /\ IF "consumers" \notin attrs
       THEN /\ ret' = Outcome("clean_the_market", "AttributeError", 0, 0)
            /\ UNCHANGED <<consumers, pc, i, attempted>>
       ELSE /\ consumers' \in Ordered(cleaning_market_mechanism, consumers)
            /\ pc' = "clean_the_market"
            /\ i' = 1
            /\ attempted' = <<>>
            /\ ret' = Outcome("clean_the_market", "running", 0, 0)
    /\ UNCHANGED <<config, scored, attrs, heap, housing_market, income, builds, creates, accruals>>

\* one turn of the purchase loop: consumer.buy_a_house(self.housing_market)
clean_the_market_buy ==
    /\ pc = "clean_the_market"
    /\ i <= Len(consumers)
    /\ IF "housing_market" \notin attrs
       THEN /\ pc' = "idle"
            /\ ret' = Outcome("clean_the_market", "AttributeError", 0, 0)
            /\ UNCHANGED <<consumers, heap, i, attempted>>
       ELSE IF filter_raises(consumers[i], housing_market, heap)
       THEN /\ pc' = "idle"
            /\ ret' = Outcome("clean_the_market", "ZeroDivisionError", 0, 0)
            /\ attempted' = Append(attempted, consumers[i].id)
            /\ UNCHANGED <<consumers, heap, i>>
       ELSE LET turn == purchase_turn(consumers, i, housing_market, heap)
            IN /\ consumers' = turn.consumers
               /\ heap' = turn.heap
               /\ i' = i + 1
               /\ attempted' = Append(attempted, consumers[i].id)
               /\ UNCHANGED <<pc, ret>>
    /\ UNCHANGED <<config, scored, attrs, housing_market, income, builds, creates, passes, accruals>>

\* the purchase loop is exhausted: the call returns
clean_the_market_return ==
    /\ pc = "clean_the_market"
    /\ i > Len(consumers)
    /\ pc' = "idle"
    /\ ret' = Outcome("clean_the_market", "returned", 0, 0)
    /\ UNCHANGED <<config, scored, attrs, heap, housing_market, consumers, i, income,
                   attempted, builds, creates, passes, accruals>>

\* ---- the rate queries ------------------------------------------------------
\* a guard that answers 0 for an empty population
owners_population_rate_or_zero(cs) ==
    LET owners == Len(SelectSeq(cs, LAMBDA c : c.house # None))
    IN IF Len(cs) = 0
       THEN Outcome("compute_owners_population_rate", "returned", 0, 1)
       ELSE Outcome("compute_owners_population_rate", "returned", owners, Len(cs))

\* owners / len(self.consumers): how the call ends
owners_population_rate(cs) ==
    LET owners == Len(SelectSeq(cs, LAMBDA c : c.house # None))
    IN IF Len(cs) = 0
       THEN Outcome("compute_owners_population_rate", "ZeroDivisionError", 0, 0)
       ELSE Outcome("compute_owners_population_rate", "returned", owners, Len(cs))

\* available houses per sold house instead of per house
houses_available_per_sold(houses, h) ==
    LET available_houses == Len(SelectSeq(houses, LAMBDA a : h[a].available))
    IN IF Len(houses) - available_houses = 0
       THEN Outcome("compute_houses_availability_rate", "ZeroDivisionError", 0, 0)
       ELSE Outcome("compute_houses_availability_rate", "returned",
                    available_houses, Len(houses) - available_houses)

\* available_houses / len(self.housing_market.houses): how the call ends
houses_availability_rate(houses, h) ==
    LET available_houses == Len(SelectSeq(houses, LAMBDA a : h[a].available))
    IN IF Len(houses) = 0
       THEN Outcome("compute_houses_availability_rate", "ZeroDivisionError", 0, 0)
       ELSE Outcome("compute_houses_availability_rate", "returned",
                    available_houses, Len(houses))

compute_owners_population_rate ==
    /\ pc = "idle"
    /\ ret' = IF "consumers" \notin attrs
              THEN Outcome("compute_owners_population_rate", "AttributeError", 0, 0)
              ELSE owners_population_rate(consumers)
    /\ UNCHANGED <<config, scored, attrs, heap, housing_market, consumers, pc, i, income,
                   attempted, builds, creates, passes, accruals>>

compute_houses_availability_rate ==
    /\ pc = "idle"
    /\ ret' = IF "housing_market" \notin attrs
              THEN Outcome("compute_houses_availability_rate", "AttributeError", 0, 0)
              ELSE houses_availability_rate(housing_market, heap)
    /\ UNCHANGED <<config, scored, attrs, heap, housing_market, consumers, pc, i, income,
                   attempted, builds, creates, passes, accruals>>

Next ==
    \/ create_housing_market
    \/ create_consumers
    \/ resample_income
    \/ compute_consumers_savings
    \/ clean_the_market
    \/ clean_the_market_buy
    \/ clean_the_market_return
    \/ compute_owners_population_rate
    \/ compute_houses_availability_rate

Spec == Init /\ [][Next]_vars

\* a running program keeps executing the loop it is in
FairSpec ==
    Spec /\ WF_vars(clean_the_market_buy) /\ WF_vars(clean_the_market_return)
         /\ WF_vars(resample_income)

\* ---- the Consumer class used on its own ------------------------------------
\* House objects handed to HousingMarket(houses) directly; id is the position
HouseObjects ==
    [SalePrice : {50, 100}, GrLivArea : {-20, 0, 20}, BedroomAbvGr : {1, 2},
     YearBuilt : {2000}]

ConsumerInit ==
    /\ housing_market_data = <<>>
    /\ consumers_number = 1
    /\ years \in 1..MaxYears
    /\ annual_income \in { s \in AnnualIncomeStatistics : s.minimum <= s.maximum }
    /\ children_range = [minimum |-> 0, maximum |-> 1]
    /\ cleaning_market_mechanism = RANDOM
    /\ attrs = {"housing_market", "consumers"}
    /\ \E rows \in SeqsUpTo(HouseObjects, MaxHouses) :
         /\ heap = [k \in 1..Len(rows) |->
                      House([Id |-> k, SalePrice |-> rows[k].SalePrice,
                             GrLivArea |-> rows[k].GrLivArea,
                             BedroomAbvGr |-> rows[k].BedroomAbvGr,
                             YearBuilt |-> rows[k].YearBuilt])]
         /\ housing_market = [k \in 1..Len(rows) |-> k]
    /\ \E inc \in IncomeGrid, kids \in 0..1, seg \in Segment :
         consumers = <<Consumer(1, inc, kids, seg)>>
    /\ pc = "idle"
    /\ i = 1
    /\ income = 0
    /\ ret = Outcome("__init__", "returned", 0, 0)
    /\ attempted = <<>>
    /\ builds = 0
    /\ creates = 0
    /\ passes = 0
    /\ accruals = 0
    /\ scored = <<>>

\* consumer.compute_savings(years)
call_compute_savings ==
    /\ accruals < MaxAccruals
    /\ accruals' = accruals + 1
    /\ \E c \in compute_savings(consumers[1], years) :
         consumers' = [consumers EXCEPT ![1] = c]
    /\ ret' = Outcome("compute_savings", "returned", 0, 0)
    /\ UNCHANGED <<config, scored, attrs, heap, housing_market, pc, i, income, attempted,
                   builds, creates, passes>>

\* consumer.buy_a_house(housing_market)
call_buy_a_house ==
    /\ passes < MaxPasses
    /\ passes' = passes + 1
    /\ IF filter_raises(consumers[1], housing_market, heap)
       THEN /\ ret' = Outcome("buy_a_house", "ZeroDivisionError", 0, 0)
            /\ UNCHANGED <<consumers, heap>>
       ELSE LET turn == purchase_turn(consumers, 1, housing_market, heap)
            IN /\ consumers' = turn.consumers
               /\ heap' = turn.heap
               /\ ret' = Outcome("buy_a_house", "returned", 0, 0)
    /\ attempted' = Append(attempted, consumers[1].id)
    /\ UNCHANGED <<config, scored, attrs, housing_market, pc, i, income, builds, creates,
                   accruals>>

ConsumerNext ==
    \/ call_compute_savings
    \/ call_buy_a_house

ConsumerSpec == ConsumerInit /\ [][ConsumerNext]_vars

\* ---- Consumer.compute_savings used on its own ------------------------------
\* initial savings, in hundredths
SavingsStarts == {0, 100, 2000000}

SavingsIncomes == {40, 60, 80, 80000}

SavingsInit ==
    /\ housing_market_data = <<>>
    /\ consumers_number = 1
    /\ years \in 0..MaxSavingsYears
    /\ annual_income \in { s \in AnnualIncomeStatistics : s.minimum <= s.maximum }
    /\ children_range = [minimum |-> 0, maximum |-> 0]
    /\ cleaning_market_mechanism = RANDOM
    /\ attrs = {"consumers"}
    /\ heap = <<>>
    /\ housing_market = <<>>
    /\ \E inc \in SavingsIncomes, start \in SavingsStarts, seg \in {FANCY} :
         consumers = <<[Consumer(1, inc, 0, seg) EXCEPT !.savings = start]>>
    /\ pc = "idle"
    /\ i = 1
    /\ income = 0
    /\ ret = Outcome("__init__", "returned", 0, 0)
    /\ attempted = <<>>
    /\ builds = 0
    /\ creates = 0
    /\ passes = 0
    /\ accruals = 0
    /\ scored = <<>>

SavingsNext ==
    \/ call_compute_savings

SavingsSpec == SavingsInit /\ [][SavingsNext]_vars

\* ---- House.get_quality_score used on its own -------------------------------
\* houses around every threshold of the three partial scores
ScoredHouseObjects ==
    [SalePrice : {100}, GrLivArea : {999, 1000, 1500, 2000, 3000},
     BedroomAbvGr : 1..5, YearBuilt : {1973, 1974, 2004, 2014, 2019}]

HouseInit ==
    /\ housing_market_data = <<>>
    /\ consumers_number = 0
    /\ years \in 1..MaxYears
    /\ annual_income \in { s \in AnnualIncomeStatistics : s.minimum <= s.maximum }
    /\ children_range = [minimum |-> 0, maximum |-> 0]
    /\ cleaning_market_mechanism = RANDOM
    /\ attrs = {}
    /\ \E row \in ScoredHouseObjects, preset \in QualityScore \cup {None} :
         heap = <<[House([Id |-> 1, SalePrice |-> row.SalePrice,
                          GrLivArea |-> row.GrLivArea,
                          BedroomAbvGr |-> row.BedroomAbvGr,
                          YearBuilt |-> row.YearBuilt])
                     EXCEPT !.quality_score = preset]>>
    /\ housing_market = <<>>
    /\ consumers = <<>>
    /\ pc = "idle"
    /\ i = 1
    /\ income = 0
    /\ ret = Outcome("__init__", "returned", 0, 0)
    /\ attempted = <<>>
    /\ builds = 0
    /\ creates = 0
    /\ passes = 0
    /\ accruals = 0
    /\ scored = <<>>

\* house.get_quality_score()
call_get_quality_score ==
    /\ Len(scored) < MaxScorings
    /\ \E a \in DOMAIN heap :
         /\ heap' = get_quality_score(heap, a)
         /\ scored' = Append(scored, a)
    /\ ret' = Outcome("get_quality_score", "returned", 0, 0)
    /\ UNCHANGED <<config, attrs, housing_market, consumers, pc, i, income,
                   attempted, builds, creates, passes, accruals>>

HouseNext ==
    \/ call_get_quality_score

HouseSpec == HouseInit /\ [][HouseNext]_vars

\* ==== properties ===========================================================
AfterPass ==
    pc = "idle" /\ ret.call = "clean_the_market" /\ ret.status = "returned"

Owners == { k \in 1..Len(consumers) : consumers[k].house # None }

\* C1: after clean_the_market completes, no two Consumers reference the same
\* House object and every House some Consumer references has available = false.
C1_ClearingExclusivity ==
    AfterPass =>
        /\ \A a \in Owners : \A b \in Owners :
               a # b => consumers[a].house # consumers[b].house
        /\ \A a \in Owners : ~heap[consumers[a].house].available

\* a pass has completed and left two owners
C1_Witness ==
    AfterPass /\ Cardinality(Owners) >= 2

\* the four conditions of the purchase, for consumer c and the house at address a
Qualifies(c, a, houses, h) ==
    /\ h[a].available
    /\ SegmentFilter(c, a, houses, h)
    /\ h[a].bedrooms >= c.children_number + 1
    /\ c.savings >= down_payment(h[a].price)

\* a is the earliest qualifying house in the market's order
EarliestQualifying(c, a, houses, h) ==
    \E k \in 1..Len(houses) :
        /\ houses[k] = a
        /\ Qualifies(c, a, houses, h)
        /\ \A m \in 1..(k - 1) : ~Qualifies(c, houses[m], houses, h)

\* the step is one call of buy_a_house, by the consumer at position i
BuyStep == Len(attempted') = Len(attempted) + 1

\* C2: buy_a_house is first-fit: the house a Consumer acquires is the earliest
\* house in the market's order that is available, passes the segment filter,
\* has enough bedrooms and whose down payment the savings cover.
C2_FirstFit ==
    [][BuyStep =>
         \A a \in DOMAIN heap :
            (consumers'[i].house = a /\ heap[a].available)
                => EarliestQualifying(consumers[i], a, housing_market, heap)]_vars

\* a FANCY consumer holds the first house of the market while a cheaper one,
\* later in the order, is still for sale
C2_Witness ==
    /\ Len(housing_market) >= 2
    /\ \E k \in 1..Len(consumers) :
         /\ consumers[k].segment = FANCY
         /\ consumers[k].house = housing_market[1]
    /\ heap[housing_market[2]].available
    /\ heap[housing_market[2]].price < heap[housing_market[1]].price

InPass == pc = "clean_the_market"

\* the consumer of the current population with that id
ById(id) == consumers[CHOOSE k \in 1..Len(consumers) : consumers[k].id = id]

\* the attempts so far were made by distinct consumers, in the mechanism's
\* order of annual_income; a completed pass has one attempt per consumer
AttemptsInOrder ==
    (InPass \/ AfterPass) =>
        /\ \A j \in 1..Len(attempted) : \A k \in 1..Len(attempted) :
             j < k =>
               /\ attempted[j] # attempted[k]
               /\ cleaning_market_mechanism = INCOME_ORDER_DESCENDANT
                    => ById(attempted[j]).annual_income >= ById(attempted[k]).annual_income
               /\ cleaning_market_mechanism = INCOME_ORDER_ASCENDANT
                    => ById(attempted[j]).annual_income <= ById(attempted[k]).annual_income
        /\ Range(attempted) \subseteq { consumers[k].id : k \in 1..Len(consumers) }
        /\ AfterPass => Len(attempted) = Len(consumers)

\* a step changes at most one consumer, and only together with one more attempt
OneAtATime ==
    InPass /\ pc' # "idle" /\ "housing_market" \in attrs =>
        /\ Len(attempted') = Len(attempted) + 1
        /\ \A k \in 1..Len(consumers) : k # i => consumers'[k] = consumers[k]

\* C3: in one pass every Consumer makes exactly one purchase attempt, one after
\* another, in non-increasing income order under INCOME_ORDER_DESCENDANT and
\* non-decreasing under INCOME_ORDER_ASCENDANT (a permutation under RANDOM),
\* and the pass ends after the last consumer.
C3_SequentialPass ==
    /\ []AttemptsInOrder
    /\ [][OneAtATime]_vars
    /\ (InPass ~> ~InPass)

\* a descending pass over two consumers of different income has completed
C3_Witness ==
    /\ AfterPass
    /\ cleaning_market_mechanism = INCOME_ORDER_DESCENDANT
    /\ Len(attempted) = 2
    /\ ById(attempted[1]).annual_income > ById(attempted[2]).annual_income

\* C4: after create_consumers, a Consumer's house reference, once set, is never
\* replaced by another House nor reset to absent.
C4_HouseSetOnce ==
    [][creates' = creates =>
         \A k \in 1..Len(consumers) : \A m \in 1..Len(consumers') :
            (consumers'[m].id = consumers[k].id /\ consumers[k].house # None)
                => consumers'[m].house = consumers[k].house]_vars

\* C5: clean_the_market completes only when create_housing_market,
\* create_consumers and compute_consumers_savings have run before it.
C5_OrderEnforced ==
    AfterPass =>
        /\ "housing_market" \in attrs
        /\ "consumers" \in attrs
        /\ accruals > 0

RateQueries == {"compute_owners_population_rate", "compute_houses_availability_rate"}

InUnitInterval(outcome) ==
    /\ outcome.status = "returned"
    /\ outcome.den > 0
    /\ 0 <= outcome.num
    /\ outcome.num <= outcome.den

\* C6 as stated: once the market and a non-empty population are built, both rate
\* queries return a value in [0, 1].
C6_RatesInUnitInterval ==
    (/\ ret.call \in RateQueries
     /\ {"housing_market", "consumers"} \subseteq attrs
     /\ Len(consumers) > 0)
        => InUnitInterval(ret)

\* C6 amended: once a non-empty market and a non-empty population are built,
\* both rate queries return a value in [0, 1].
C6_RateBounds ==
    (/\ ret.call \in RateQueries
     /\ {"housing_market", "consumers"} \subseteq attrs
     /\ Len(consumers) > 0
     /\ Len(housing_market) > 0)
        => InUnitInterval(ret)

\* after a pass, the availability query returned a rate strictly inside (0, 1)
C6_Witness ==
    /\ ret.call = "compute_houses_availability_rate"
    /\ {"housing_market", "consumers"} \subseteq attrs
    /\ Len(consumers) > 0
    /\ passes > 0
    /\ ret.status = "returned"
    /\ 0 < ret.num
    /\ ret.num < ret.den

\* C7: compute_owners_population_rate raises on an empty population and
\* compute_houses_availability_rate raises on an empty inventory; neither
\* returns a value.
C7_RatesRaiseOnEmpty ==
    /\ (ret.call = "compute_owners_population_rate" /\ Len(consumers) = 0)
          => ret.status = IF "consumers" \in attrs THEN "ZeroDivisionError"
                          ELSE "AttributeError"
    /\ (ret.call = "compute_houses_availability_rate" /\ Len(housing_market) = 0)
          => ret.status = IF "housing_market" \in attrs THEN "ZeroDivisionError"
                          ELSE "AttributeError"

\* the owners rate was asked of a built, empty population
C7_Witness ==
    /\ ret.call = "compute_owners_population_rate"
    /\ "consumers" \in attrs
    /\ Len(consumers) = 0
    /\ ret.status = "ZeroDivisionError"

\* the pass as a function of the state it starts from
PassOutcomes(mechanism) ==
    { purchase_loop(o, 1, housing_market, heap) : o \in Ordered(mechanism, consumers) }

Assignment(outcome) ==
    { <<outcome.consumers[k].id, outcome.consumers[k].house>> :
        k \in 1..Len(outcome.consumers) }

\* one house for sale, which every consumer would buy if asked first, and
\* consumers of different incomes
Scarce ==
    /\ pc = "idle"
    /\ {"housing_market", "consumers"} \subseteq attrs
    /\ Cardinality({ k \in 1..Len(housing_market) :
                       heap[housing_market[k]].available }) = 1
    /\ \A k \in 1..Len(consumers) :
         /\ consumers[k].house = None
         /\ buy_a_house(consumers[k], housing_market, heap).consumer.house # None
    /\ \E j \in 1..Len(consumers) : \E k \in 1..Len(consumers) :
         consumers[j].annual_income # consumers[k].annual_income

\* C8: from a state with scarce inventory, clean_the_market under
\* INCOME_ORDER_DESCENDANT and under INCOME_ORDER_ASCENDANT end with different
\* consumer-to-house assignments.
C8_MechanismsDiffer ==
    Scarce =>
        \A d \in PassOutcomes(INCOME_ORDER_DESCENDANT) :
        \A a \in PassOutcomes(INCOME_ORDER_ASCENDANT) :
            Assignment(d) # Assignment(a)

\* the owner of the one house, in an outcome with exactly one owner
OwnerIncome(outcome) ==
    LET k == CHOOSE k \in 1..Len(outcome.consumers) :
                 outcome.consumers[k].house # None
    IN outcome.consumers[k].annual_income

\* a scarce state of two consumers: the descending pass houses the richer one,
\* the ascending pass the poorer one
C8_Witness ==
    /\ Scarce
    /\ Len(consumers) = 2
    /\ \E d \in PassOutcomes(INCOME_ORDER_DESCENDANT) :
       \E a \in PassOutcomes(INCOME_ORDER_ASCENDANT) :
          OwnerIncome(d) > OwnerIncome(a)

\* C9: create_consumers with income bounds no sample satisfies fails fast with
\* a configuration error.
C9_FailsFast ==
    (/\ ret.call = "create_consumers"
     /\ consumers_number >= 1
     /\ AcceptedIncomes = {})
        => ret.status \notin {"running", "returned"}

\* C10: after create_housing_market, house ids are unique in the inventory.
C10_UniqueIds ==
    "housing_market" \in attrs =>
        \A j \in 1..Len(housing_market) : \A k \in 1..Len(housing_market) :
            j # k => heap[housing_market[j]].id # heap[housing_market[k]].id

RECURSIVE Pow(_, _)
Pow(b, n) == IF n = 0 THEN 1 ELSE b * Pow(b, n - 1)

\* the recurrence savings = (savings + contribution) * (1 + interest_rate),
\* n times from start, as a numerator over growth.den ^ n
RECURSIVE RecurrenceNumerator(_, _, _)
RecurrenceNumerator(start, contribution, n) ==
    IF n = 0 THEN start
    ELSE (RecurrenceNumerator(start, contribution, n - 1)
            + contribution * Pow(growth.den, n - 1)) * growth.num

\* C11: compute_savings(years) applies the yearly recurrence exactly `years`
\* times and rounds to 2 decimals once, after the last year: the result is a
\* hundredth nearest to the unrounded recurrence; from 20000.00 with income
\* 80000, saving rate 0.3, interest 0.05 and 5 years it is 164771.54.
C11_SavingsRecurrence ==
    [][accruals' = accruals + 1 =>
         LET c == consumers[1]
             result == consumers'[1].savings
         IN /\ (c.savings = 2000000 /\ c.annual_income = 80000 /\ years = 5)
                  => result = 16477154
            /\ (c.savings <= 100 /\ c.annual_income <= 80 /\ years <= 3)
                  => LET D == Pow(growth.den, years)
                         E == RecurrenceNumerator(c.savings,
                                                  c.annual_income * saving_rate, years)
                     IN /\ 2 * (result * D - E) <= D
                        /\ 2 * (E - result * D) <= D]_vars

\* the documented case has been computed
C11_Witness ==
    /\ accruals = 1
    /\ years = 5
    /\ consumers[1].annual_income = 80000
    /\ consumers[1].savings = 16477154

\* C12: a successful buy_a_house takes exactly one house: the caller's
\* reference is set to it, its available flag alone goes from true to false,
\* the caller's savings drop by 20% of its price, and every other house and
\* every other consumer is left as it was.
C12_PurchaseFrame ==
    [][(BuyStep /\ consumers'[i].house # None) =>
         LET house == consumers'[i].house
         IN /\ heap[house].available
            /\ heap' = [heap EXCEPT ![house].available = FALSE]
            /\ consumers' = [consumers EXCEPT
                               ![i] = [@ EXCEPT !.house = house,
                                                !.savings = @ - (heap[house].price
                                                                   * down_payment_rate)]]
            /\ housing_market' = housing_market]_vars

\* a consumer has bought one of two houses the savings covered, next to a
\* second consumer; the other house is still for sale
C12_Witness ==
    /\ Len(consumers) = 2
    /\ \E k \in 1..Len(consumers) :
         /\ consumers[k].house # None
         /\ ~heap[consumers[k].house].available
         /\ \E other \in Range(housing_market) \ {consumers[k].house} :
              /\ heap[other].available
              /\ consumers[k].savings >= down_payment(heap[other].price)

\* no house of the market is available, passes the segment filter, has the
\* bedrooms and is within the savings of c
NoneQualifies(c, houses, h) ==
    \A k \in 1..Len(houses) : ~Qualifies(c, houses[k], houses, h)

\* C13: when no house qualifies, buy_a_house returns normally, the caller's
\* house reference is absent afterwards, and its savings and every house's
\* available flag are unchanged.
C13_FailedPurchase ==
    [][(BuyStep /\ NoneQualifies(consumers[i], housing_market, heap)) =>
         /\ ret'.call = "buy_a_house"
         /\ ret'.status = "returned"
         /\ consumers'[i].house = None
         /\ consumers'[i].savings = consumers[i].savings
         /\ heap' = heap]_vars

\* after two attempts the consumer holds no house, on a market with a house
\* sold and a house still for sale: the last attempt has failed
C13_Witness ==
    /\ ret.call = "buy_a_house"
    /\ passes = 2
    /\ consumers[1].house = None
    /\ \E a \in Range(housing_market) : heap[a].available
    /\ \E a \in Range(housing_market) : ~heap[a].available

\* C14: get_quality_score is idempotent and set-once: after a call the
\* house's quality_score is one of the five QualityScore values, a call on a
\* house whose quality_score is already set (computed or given at
\* construction) changes nothing, and no call touches any other field.
C14_QualitySetOnce ==
    [][Len(scored') = Len(scored) + 1 =>
         LET a == scored'[Len(scored')]
         IN /\ heap'[a].quality_score \in QualityScore
            /\ heap[a].quality_score # None => heap' = heap
            /\ heap' = [heap EXCEPT ![a].quality_score = heap'[a].quality_score]]_vars

\* get_quality_score has been called twice on a house; the score it holds is
\* not the one its attributes give, so it was given at construction and kept
C14_Witness ==
    /\ Len(scored) = 2
    /\ scored[1] = scored[2]
    /\ heap[scored[1]].quality_score \in QualityScore
    /\ LET house == heap[scored[1]]
       IN house.quality_score # average_score_to_quality(age_score(house.year_built)
                                    + size_score(house.area)
                                    + bedrooms_score(house.bedrooms))

\* the prices of the first n houses of the inventory, sold or not, added up
RECURSIVE InventoryTotal(_, _, _)
InventoryTotal(houses, h, n) ==
    IF n = 0 THEN 0 ELSE InventoryTotal(houses, h, n - 1) + h[houses[n]].price

\* C15: an AVERAGE consumer only buys a house of the inventory that is
\* available and priced strictly below the mean price of all the houses of the
\* inventory, sold and unsold alike, at the moment of the attempt; a house
\* priced exactly at that mean is not bought.
C15_AverageBelowMean ==
    [][(BuyStep /\ consumers[i].segment = AVERAGE /\ consumers'[i].house # None) =>
         LET house == consumers'[i].house
             n == Len(housing_market)
         IN /\ house \in Range(housing_market)
            /\ heap[house].available
            /\ heap[house].price * n
                 < InventoryTotal(housing_market, heap, n)]_vars

\* in a first pass a FANCY consumer took the dearer house, then an AVERAGE
\* consumer the cheaper one: the sold house counted in the mean, the only
\* available price would not have been below itself
C15_Witness ==
    /\ pc = "clean_the_market"
    /\ passes = 1
    /\ i = 3
    /\ consumers[1].segment = FANCY
    /\ consumers[2].segment = AVERAGE
    /\ consumers[1].house # None
    /\ consumers[2].house # None
    /\ heap[consumers[1].house].price > heap[consumers[2].house].price

\* C16: an OPTIMIZER consumer only buys an available house with area > 0
\* and price / area < annual_income / 12; a house with area <= 0 is not
\* bought by an OPTIMIZER and no attempt of an OPTIMIZER ends in a division
\* fault.
C16_OptimizerFilter ==
    [][(BuyStep /\ consumers[i].segment = OPTIMIZER) =>
         /\ ret'.status # "ZeroDivisionError"
         /\ consumers'[i].house # None =>
              LET house == heap[consumers'[i].house]
              IN /\ house.available
                 /\ house.area > 0
                 /\ house.price * 12 < consumers[i].annual_income * house.area]_vars

\* an OPTIMIZER has bought the second house of a market whose first house,
\* of area 0 or less, is still for sale
C16_Witness ==
    /\ ret.call = "buy_a_house"
    /\ ret.status = "returned"
    /\ consumers[1].segment = OPTIMIZER
    /\ Len(housing_market) = 2
    /\ consumers[1].house = housing_market[2]
    /\ heap[housing_market[1]].area <= 0
    /\ heap[housing_market[1]].available

\* C17: whatever the segment, every Consumer that holds a house holds one
\* with bedrooms >= children_number + 1.
C17_EnoughBedrooms ==
    \A k \in 1..Len(consumers) :
        consumers[k].house # None =>
            heap[consumers[k].house].bedrooms >= consumers[k].children_number + 1

\* a consumer with a child has passed over the one-bedroom house at the head
\* of the market and holds the two-bedroom house behind it
C17_Witness ==
    /\ ret.call = "buy_a_house"
    /\ Len(housing_market) = 2
    /\ consumers[1].children_number = 1
    /\ consumers[1].house = housing_market[2]
    /\ heap[housing_market[1]].bedrooms = 1
    /\ heap[housing_market[1]].available
    /\ heap[housing_market[1]].price <= heap[housing_market[2]].price
    /\ consumers[1].segment = FANCY

\* C18: on a built market, no step of compute_consumers_savings,
\* clean_the_market or a rate query makes an unavailable house available
\* again, removes a house or adds one, and a clean_the_market call starts from
\* the availability the previous one left.
C18_AvailabilityMonotone ==
    [][builds' = builds =>
         /\ housing_market' = housing_market
         /\ DOMAIN heap' = DOMAIN heap
         /\ \A a \in DOMAIN heap :
              /\ ~heap[a].available => ~heap'[a].available
              /\ heap'[a] = [heap[a] EXCEPT !.available = heap'[a].available]
         /\ (pc = "idle" /\ pc' = "clean_the_market") => heap' = heap]_vars

\* a second clearing has started on a market never rebuilt, with a house the
\* first one sold
C18_Witness ==
    /\ builds = 1
    /\ passes = 2
    /\ pc = "clean_the_market"
    /\ i = 1
    /\ \E k \in 1..Len(housing_market) : ~heap[housing_market[k]].available

\* C19: starting from zero savings, with a positive income and positive
\* prices, the savings of a Consumer are never negative, after any sequence of
\* compute_savings and buy_a_house calls.
C19_SavingsNeverNegative ==
    \A k \in 1..Len(consumers) : consumers[k].savings >= 0

\* a consumer has saved and bought, and what is left would not pay for the
\* same house again
C19_Witness ==
    /\ accruals >= 1
    /\ consumers[1].house # None
    /\ consumers[1].savings < down_payment(heap[consumers[1].house].price)

\* C20: in every state reachable by Simulation operations, in any order and
\* repeated, the house a Consumer refers to is a House of the simulation's
\* current HousingMarket inventory.
C20_HouseInCurrentInventory ==
    \A k \in 1..Len(consumers) :
        consumers[k].house # None => consumers[k].house \in Range(housing_market)

\* the houses of the inventory that have been sold
Sold == { a \in Range(housing_market) : ~heap[a].available }

\* C21: once create_housing_market and create_consumers have run, through any
\* number of clean_the_market passes, the houses with available = false are as
\* many as the Consumers holding a house, and every unavailable house is
\* referenced by exactly one Consumer.
C21_SoldMatchOwners ==
    (builds = 1 /\ creates = 1 /\ {"housing_market", "consumers"} \subseteq attrs) =>
        /\ Cardinality(Sold) = Cardinality(Owners)
        /\ \A a \in Sold :
              Cardinality({ k \in Owners : consumers[k].house = a }) = 1

====
